---- MODULE Spec2Model ----
(***************************************************************************)
(* The rule engine of src/src/main.rs: the TetrisCellScreen board, the     *)
(* Figure catalog, TetrisGame's event handling and the part of             *)
(* TetrisGame::run that dispatches game input events.                      *)
(*                                                                         *)
(* Rust's Point(a, b), Dimensions(a, b) and PointOffset(a, b) are the      *)
(* tuples <<a, b>>: field .0 is [1] and field .1 is [2].  Option<T> is a   *)
(* sequence, <<>> for None and <<v>> for Some(v), except for board cells,  *)
(* where None is the string "None" next to the colour names.  Slices and   *)
(* Vecs indexed from 0 in Rust are sequences indexed from 1 here.          *)
(***************************************************************************)
EXTENDS Integers, Sequences, FiniteSets, TLC

CELL_COUNT_X == 10
CELL_COUNT_Y == 16

None == "None"

TetrisCellColor ==
    {"Red", "Orange", "Yellow", "Green", "Blue", "DeepBlue", "Purple"}

Figure ==
    {"Cube", "LineHorizontal", "LineVertical",
     "LeftL0", "LeftL90", "LeftL180", "LeftL270",
     "RightL0", "RightL90", "RightL180", "RightL270",
     "LeftZigzagHorizontal", "LeftZigzagVertical",
     "RightZigzagHorizontal", "RightZigzagVertical",
     "Pyramid0", "Pyramid90", "Pyramid180", "Pyramid270"}

(***************************************************************************)
(* The occupancy bitmaps, row-major.                                       *)
(***************************************************************************)
CUBE_CELLS ==
    << TRUE, TRUE,
       TRUE, TRUE >>

LINE_HORIZONTAL ==
    << TRUE, TRUE, TRUE, TRUE >>

LINE_VERTICAL == LINE_HORIZONTAL

LEFT_L_0 ==
    << TRUE,  TRUE,
       FALSE, TRUE,
       FALSE, TRUE >>

LEFT_L_90 ==
    << FALSE, FALSE, TRUE,
       TRUE,  TRUE,  TRUE >>

LEFT_L_180 ==
    << TRUE,  FALSE,
       TRUE,  FALSE,
       TRUE,  TRUE >>

LEFT_L_270 ==
    << TRUE,  TRUE,  TRUE,
       TRUE,  FALSE, FALSE >>

RIGHT_L_0 ==
    << TRUE, TRUE,
       TRUE, FALSE,
       TRUE, FALSE >>

RIGHT_L_90 ==
    << TRUE,  TRUE,  TRUE,
       FALSE, FALSE, TRUE >>

RIGHT_L_180 ==
    << FALSE, TRUE,
       FALSE, TRUE,
       TRUE,  TRUE >>

RIGHT_L_270 ==
    << TRUE,  FALSE, FALSE,
       TRUE,  TRUE,  TRUE >>

LEFT_ZIGZAG_HORIZONTAL ==
    << FALSE, TRUE, TRUE,
       TRUE,  TRUE, FALSE >>

LEFT_ZIGZAG_VERTICAL ==
    << TRUE,  FALSE,
       TRUE,  TRUE,
       FALSE, TRUE >>

RIGHT_ZIGZAG_HORIZONTAL ==
    << TRUE,  TRUE, FALSE,
       FALSE, TRUE, TRUE >>

RIGHT_ZIGZAG_VERTICAL ==
    << FALSE, TRUE,
       TRUE,  TRUE,
       TRUE,  FALSE >>

PYRAMID_0 ==
    << FALSE, TRUE,  FALSE,
       TRUE,  TRUE,  TRUE >>

PYRAMID_90 ==
    << TRUE,  FALSE,
       TRUE,  TRUE,
       TRUE,  FALSE >>

PYRAMID_180 ==
    << TRUE,  TRUE,  TRUE,
       FALSE, TRUE,  FALSE >>

PYRAMID_270 ==
    << FALSE, TRUE,
       TRUE,  TRUE,
       FALSE, TRUE >>

(***************************************************************************)
(* impl Figure                                                             *)
(***************************************************************************)
offset_from_top_center(f) ==
    CASE f = "Cube" -> <<-1, 0>>
      [] f = "LineHorizontal" -> <<-2, 0>>
      [] f = "LineVertical" -> <<0, 0>>
      [] f = "LeftL0" -> <<-1, 0>>
      [] f = "LeftL90" -> <<-2, 0>>
      [] f = "LeftL180" -> <<-1, 0>>
      [] f = "LeftL270" -> <<-2, 0>>
      [] f = "RightL0" -> <<-1, 0>>
      [] f = "RightL90" -> <<-2, 0>>
      [] f = "RightL180" -> <<-1, 0>>
      [] f = "RightL270" -> <<-2, 0>>
      [] f = "LeftZigzagHorizontal" -> <<-1, 0>>
      [] f = "LeftZigzagVertical" -> <<-1, 0>>
      [] f = "RightZigzagHorizontal" -> <<-1, 0>>
      [] f = "RightZigzagVertical" -> <<-1, 0>>
      [] f = "Pyramid0" -> <<-1, 0>>
      [] f = "Pyramid90" -> <<-1, 0>>
      [] f = "Pyramid180" -> <<-1, 0>>
      [] f = "Pyramid270" -> <<-1, 0>>

dimensions(f) ==
    CASE f = "Cube" -> <<2, 2>>
      [] f = "LineHorizontal" -> <<4, 1>>
      [] f = "LineVertical" -> <<1, 4>>
      [] f = "LeftL0" -> <<2, 3>>
      [] f = "LeftL90" -> <<3, 2>>
      [] f = "LeftL180" -> <<2, 3>>
      [] f = "LeftL270" -> <<3, 2>>
      [] f = "RightL0" -> <<2, 3>>
      [] f = "RightL90" -> <<3, 2>>
      [] f = "RightL180" -> <<2, 3>>
      [] f = "RightL270" -> <<3, 2>>
      [] f = "LeftZigzagHorizontal" -> <<3, 2>>
      [] f = "LeftZigzagVertical" -> <<2, 3>>
      [] f = "RightZigzagHorizontal" -> <<3, 2>>
      [] f = "RightZigzagVertical" -> <<2, 3>>
      [] f = "Pyramid0" -> <<3, 2>>
      [] f = "Pyramid90" -> <<2, 3>>
      [] f = "Pyramid180" -> <<3, 2>>
      [] f = "Pyramid270" -> <<2, 3>>

color(f) ==
    CASE f = "Cube" -> "Red"
      [] f \in {"LineHorizontal", "LineVertical"} -> "Orange"
      [] f \in {"LeftL0", "LeftL90", "LeftL180", "LeftL270"} -> "Yellow"
      [] f \in {"RightL0", "RightL90", "RightL180", "RightL270"} -> "Green"
      [] f \in {"LeftZigzagHorizontal", "LeftZigzagVertical"} -> "Blue"
      [] f \in {"RightZigzagHorizontal", "RightZigzagVertical"} -> "DeepBlue"
      [] f \in {"Pyramid0", "Pyramid90", "Pyramid180", "Pyramid270"} -> "Purple"

bitmap(f) ==
    CASE f = "Cube" -> CUBE_CELLS
      [] f = "LineHorizontal" -> LINE_HORIZONTAL
      [] f = "LineVertical" -> LINE_VERTICAL
      [] f = "LeftL0" -> LEFT_L_0
      [] f = "LeftL90" -> LEFT_L_90
      [] f = "LeftL180" -> LEFT_L_180
      [] f = "LeftL270" -> LEFT_L_270
      [] f = "RightL0" -> RIGHT_L_0
      [] f = "RightL90" -> RIGHT_L_90
      [] f = "RightL180" -> RIGHT_L_180
      [] f = "RightL270" -> RIGHT_L_270
      [] f = "LeftZigzagHorizontal" -> LEFT_ZIGZAG_HORIZONTAL
      [] f = "LeftZigzagVertical" -> LEFT_ZIGZAG_VERTICAL
      [] f = "RightZigzagHorizontal" -> RIGHT_ZIGZAG_HORIZONTAL
      [] f = "RightZigzagVertical" -> RIGHT_ZIGZAG_VERTICAL
      [] f = "Pyramid0" -> PYRAMID_0
      [] f = "Pyramid90" -> PYRAMID_90
      [] f = "Pyramid180" -> PYRAMID_180
      [] f = "Pyramid270" -> PYRAMID_270

(* Figure::rotate_clockwise: <<translation, successor>>.                   *)
(* Figure::rotate_clockwise with the arm of RightL270 copied from          *)
(* LeftL270.                                                               *)
Figure_rotate_clockwise_miscopied(f) ==
    IF f = "RightL270"
    THEN << <<0, 0>>, "LeftL0" >>
    ELSE IF f \in {"LeftL0", "LeftL90", "LeftL180"}
    THEN << <<0, 0>>, CASE f = "LeftL0" -> "LeftL90"
                        [] f = "LeftL90" -> "LeftL180"
                        [] f = "LeftL180" -> "LeftL270" >>
    ELSE IF f = "LeftL270" THEN << <<0, 0>>, "LeftL0" >>
    ELSE IF f \in {"RightL0", "RightL90", "RightL180"}
    THEN << <<0, 0>>, CASE f = "RightL0" -> "RightL90"
                        [] f = "RightL90" -> "RightL180"
                        [] f = "RightL180" -> "RightL270" >>
    ELSE IF f \in {"Pyramid0", "Pyramid90", "Pyramid180", "Pyramid270"}
    THEN << <<0, 0>>, CASE f = "Pyramid0" -> "Pyramid90"
                        [] f = "Pyramid90" -> "Pyramid180"
                        [] f = "Pyramid180" -> "Pyramid270"
                        [] f = "Pyramid270" -> "Pyramid0" >>
    ELSE IF f = "LineHorizontal" THEN << <<2, -2>>, "LineVertical" >>
    ELSE IF f = "LineVertical" THEN << <<-2, 2>>, "LineHorizontal" >>
    ELSE IF f = "LeftZigzagHorizontal" THEN << <<0, 0>>, "LeftZigzagVertical" >>
    ELSE IF f = "LeftZigzagVertical" THEN << <<0, 0>>, "LeftZigzagHorizontal" >>
    ELSE IF f = "RightZigzagHorizontal" THEN << <<0, 0>>, "RightZigzagVertical" >>
    ELSE IF f = "RightZigzagVertical" THEN << <<0, 0>>, "RightZigzagHorizontal" >>
    ELSE << <<0, 0>>, "Cube" >>

Figure_rotate_clockwise(f) ==
    CASE f = "Cube" -> << <<0, 0>>, "Cube" >>
      [] f = "LineHorizontal" -> << <<2, -2>>, "LineVertical" >>
      [] f = "LineVertical" -> << <<-2, 2>>, "LineHorizontal" >>
      [] f = "LeftL0" -> << <<0, 0>>, "LeftL90" >>
      [] f = "LeftL90" -> << <<0, 0>>, "LeftL180" >>
      [] f = "LeftL180" -> << <<0, 0>>, "LeftL270" >>
      [] f = "LeftL270" -> << <<0, 0>>, "LeftL0" >>
      [] f = "RightL0" -> << <<0, 0>>, "RightL90" >>
      [] f = "RightL90" -> << <<0, 0>>, "RightL180" >>
      [] f = "RightL180" -> << <<0, 0>>, "RightL270" >>
      [] f = "RightL270" -> << <<0, 0>>, "RightL0" >>
      [] f = "LeftZigzagHorizontal" -> << <<0, 0>>, "LeftZigzagVertical" >>
      [] f = "LeftZigzagVertical" -> << <<0, 0>>, "LeftZigzagHorizontal" >>
      [] f = "RightZigzagHorizontal" -> << <<0, 0>>, "RightZigzagVertical" >>
      [] f = "RightZigzagVertical" -> << <<0, 0>>, "RightZigzagHorizontal" >>
      [] f = "Pyramid0" -> << <<0, 0>>, "Pyramid90" >>
      [] f = "Pyramid90" -> << <<0, 0>>, "Pyramid180" >>
      [] f = "Pyramid180" -> << <<0, 0>>, "Pyramid270" >>
      [] f = "Pyramid270" -> << <<0, 0>>, "Pyramid0" >>

(* impl rand::Rand for Figure: the figure drawn for the value u of        *)
(* rng.next_u32().                                                         *)
Figure_rand(u) ==
    LET n == u % 28 IN
    CASE n \in 0..3 -> "Cube"
      [] n \in 4..5 -> "LineHorizontal"
      [] n \in 6..7 -> "LineVertical"
      [] n = 8 -> "LeftL0"
      [] n = 9 -> "LeftL90"
      [] n = 10 -> "LeftL180"
      [] n = 11 -> "LeftL270"
      [] n = 12 -> "RightL0"
      [] n = 13 -> "RightL90"
      [] n = 14 -> "RightL180"
      [] n = 15 -> "RightL270"
      [] n \in 16..17 -> "LeftZigzagHorizontal"
      [] n \in 18..19 -> "LeftZigzagVertical"
      [] n \in 20..21 -> "RightZigzagHorizontal"
      [] n \in 22..23 -> "RightZigzagVertical"
      [] n = 24 -> "Pyramid0"
      [] n = 25 -> "Pyramid90"
      [] n = 26 -> "Pyramid180"
      [] n = 27 -> "Pyramid270"

(***************************************************************************)
(* TetrisCellScreen.  A game value g is the record                         *)
(*   [cells, _figure, _figure_layer, panicked, addressed]                  *)
(* of the screen's fields plus panicked, which is TRUE once the process    *)
(* has aborted (an unwrap of None, an index out of range, a failed         *)
(* assertion), and addressed, the points (x, y) whose cell the handling    *)
(* of the current event has read in _figure_overlaps_cells or written in   *)
(* set_cell.                                                               *)
(***************************************************************************)
dim == <<CELL_COUNT_X, CELL_COUNT_Y>>

CellIndex == 0 .. (CELL_COUNT_X * CELL_COUNT_Y - 1)

TetrisCellScreen_new ==
    [cells |-> [i \in CellIndex |-> None],
     _figure |-> <<>>,
     _figure_layer |-> <<>>,
     panicked |-> FALSE,
     addressed |-> {}]

has_figure(g) == g._figure # <<>>

get_figure(g) == g._figure

(* set_figure whose guard compares the colour only.                        *)
set_figure_by_color(g, point, col, figure) ==
    LET unchanged == /\ g._figure # <<>>
                     /\ g._figure[1].color = col
        layer == IF unchanged
                 THEN g._figure_layer
                 ELSE [i \in 1 .. Len(bitmap(figure)) |->
                          IF bitmap(figure)[i] THEN col ELSE None]
    IN [g EXCEPT !._figure_layer = layer,
                 !._figure = << [point |-> point, color |-> col, figure |-> figure] >>]

set_figure(g, point, col, figure) ==
    LET unchanged == /\ g._figure # <<>>
                     /\ g._figure[1].color = col
                     /\ g._figure[1].figure = figure
        layer == IF unchanged
                 THEN g._figure_layer
                 ELSE [i \in 1 .. Len(bitmap(figure)) |->
                          IF bitmap(figure)[i] THEN col ELSE None]
    IN [g EXCEPT !._figure_layer = layer,
                 !._figure = << [point |-> point, color |-> col, figure |-> figure] >>]

set_cell(g, point, cell) ==
    LET i == point[2] * dim[1] + point[1]
    IN IF i \in CellIndex
       THEN [g EXCEPT !.cells[i] = cell, !.addressed = @ \cup {point}]
       ELSE [g EXCEPT !.panicked = TRUE, !.addressed = @ \cup {point}]

(***************************************************************************)
(* impl TetrisGame                                                         *)
(***************************************************************************)
(* The points of the loops `for y in 0 .. fig_dim.1`, `for x in            *)
(* 0 .. fig_dim.0` of _figure_overlaps_cells called with new_point: the    *)
(* call reads the cell of each of them.                                    *)
overlap_points(g, new_point, figure) ==
    [g EXCEPT !.addressed =
        @ \cup { << new_point[1] + x, new_point[2] + y >> :
                    x \in 0 .. dimensions(figure)[1] - 1,
                    y \in 0 .. dimensions(figure)[2] - 1 }]

_figure_overlaps_cells(g, new_point, figure) ==
    LET figure_bitmap == bitmap(figure)
        existing_cells == g.cells
        fig_dim == dimensions(figure)
        screen_dim == dim
    IN \E y \in 0 .. fig_dim[2] - 1 : \E x \in 0 .. fig_dim[1] - 1 :
          LET screen_offset_in_new_point ==
                  (new_point[2] + y) * screen_dim[1] + new_point[1] + x
              is_cell_in_figure == figure_bitmap[y * fig_dim[1] + x + 1]
              has_cell_here == existing_cells[screen_offset_in_new_point] # None
          IN has_cell_here /\ is_cell_in_figure

(* create_new_figure that returns true when the figure drawn overlaps.     *)
create_new_figure_unreported(g, u) ==
    LET g0 == [g EXCEPT !._figure = <<>>]
        figure == Figure_rand(u)
        offset == offset_from_top_center(figure)
        point == << dim[1] \div 2 + offset[1], offset[2] >>
    IN IF offset[2] # 0
       THEN [g |-> [g0 EXCEPT !.panicked = TRUE], ret |-> FALSE]
       ELSE IF _figure_overlaps_cells(g0, point, figure)
       THEN [g |-> overlap_points(g0, point, figure), ret |-> TRUE]
       ELSE [g |-> set_figure(overlap_points(g0, point, figure), point,
                              color(figure), figure),
             ret |-> TRUE]

(* create_new_figure without the overlap test at the spawn anchor.         *)
create_new_figure_unchecked(g, u) ==
    LET g0 == [g EXCEPT !._figure = <<>>]
        figure == Figure_rand(u)
        offset == offset_from_top_center(figure)
        point == << dim[1] \div 2 + offset[1], offset[2] >>
    IN IF offset[2] # 0
       THEN [g |-> [g0 EXCEPT !.panicked = TRUE], ret |-> FALSE]
       ELSE [g |-> set_figure(g0, point, color(figure), figure), ret |-> TRUE]

create_new_figure(g, u) ==
    LET g0 == [g EXCEPT !._figure = <<>>]
        figure == Figure_rand(u)
        offset == offset_from_top_center(figure)
        point == << dim[1] \div 2 + offset[1], offset[2] >>
    IN IF offset[2] # 0
       THEN [g |-> [g0 EXCEPT !.panicked = TRUE], ret |-> FALSE]
       ELSE IF _figure_overlaps_cells(g0, point, figure)
       THEN [g |-> overlap_points(g0, point, figure), ret |-> FALSE]
       ELSE [g |-> set_figure(overlap_points(g0, point, figure), point,
                              color(figure), figure),
             ret |-> TRUE]

move_figure_left(g) ==
    LET fig == get_figure(g)[1]
        point == fig.point
    IN IF point[1] > 0
       THEN LET p == << point[1] - 1, point[2] >>
            IN IF ~ _figure_overlaps_cells(g, p, fig.figure)
               THEN set_figure(overlap_points(g, p, fig.figure), p, fig.color,
                               fig.figure)
               ELSE overlap_points(g, p, fig.figure)
       ELSE g

(* move_figure_right with the bound of a figure one cell wide.             *)
move_figure_right_overreaching(g) ==
    LET fig == get_figure(g)[1]
        point == fig.point
    IN IF point[1] < dim[1] - 1
       THEN LET p == << point[1] + 1, point[2] >>
            IN IF ~ _figure_overlaps_cells(g, p, fig.figure)
               THEN set_figure(overlap_points(g, p, fig.figure), p, fig.color,
                               fig.figure)
               ELSE overlap_points(g, p, fig.figure)
       ELSE g

(* move_figure_right without the overlap test.                             *)
move_figure_right_unchecked(g) ==
    LET fig == get_figure(g)[1]
        point == fig.point
    IN IF point[1] < dim[1] - dimensions(fig.figure)[1]
       THEN set_figure(g, << point[1] + 1, point[2] >>, fig.color, fig.figure)
       ELSE g

move_figure_right(g) ==
    LET fig == get_figure(g)[1]
        point == fig.point
    IN IF point[1] < dim[1] - dimensions(fig.figure)[1]
       THEN LET p == << point[1] + 1, point[2] >>
            IN IF ~ _figure_overlaps_cells(g, p, fig.figure)
               THEN set_figure(overlap_points(g, p, fig.figure), p, fig.color,
                               fig.figure)
               ELSE overlap_points(g, p, fig.figure)
       ELSE g

(* The lock loop without `if let Some(color)`: every cell of the bounding  *)
(* box is written, the empty ones too.                                     *)
RECURSIVE lock_cells_opaque(_, _, _, _)
lock_cells_opaque(g, point, fig_dim, k) ==
    IF k = fig_dim[1] * fig_dim[2] \/ g.panicked
    THEN g
    ELSE LET x == point[1] + (k % fig_dim[1])
             y == point[2] + (k \div fig_dim[1])
         IN IF k + 1 > Len(g._figure_layer)
            THEN [g EXCEPT !.panicked = TRUE]
            ELSE lock_cells_opaque(set_cell(g, <<x, y>>, g._figure_layer[k + 1]),
                                   point, fig_dim, k + 1)

(* The else branch of _try_move_figure_down: the n cells of the figure's   *)
(* bounding box from the k-th on, each paired with the next element of     *)
(* _figure_layer.                                                          *)
RECURSIVE lock_cells(_, _, _, _)
lock_cells(g, point, fig_dim, k) ==
    IF k = fig_dim[1] * fig_dim[2] \/ g.panicked
    THEN g
    ELSE LET x == point[1] + (k % fig_dim[1])
             y == point[2] + (k \div fig_dim[1])
         IN IF k + 1 > Len(g._figure_layer)
            THEN [g EXCEPT !.panicked = TRUE]
            ELSE IF g._figure_layer[k + 1] # None
            THEN lock_cells(set_cell(g, <<x, y>>, g._figure_layer[k + 1]),
                            point, fig_dim, k + 1)
            ELSE lock_cells(g, point, fig_dim, k + 1)

(* _try_move_figure_down with can_go_down reduced to the floor test.       *)
_try_move_figure_down_unblocked(g) ==
    IF get_figure(g) = <<>>
    THEN [g |-> [g EXCEPT !.panicked = TRUE], ret |-> FALSE]
    ELSE LET fig == get_figure(g)[1]
             point == fig.point
             figure == fig.figure
             fig_dim == dimensions(figure)
             can_go_down == (point[2] + dimensions(figure)[2]) < dim[2]
         IN IF can_go_down
            THEN [g |-> set_figure(g, << point[1], point[2] + 1 >>, fig.color, figure),
                  ret |-> TRUE]
            ELSE [g |-> lock_cells(g, point, fig_dim, 0), ret |-> FALSE]

_try_move_figure_down(g) ==
    IF get_figure(g) = <<>>
    THEN [g |-> [g EXCEPT !.panicked = TRUE], ret |-> FALSE]
    ELSE LET fig == get_figure(g)[1]
             point == fig.point
             figure == fig.figure
             fig_dim == dimensions(figure)
             can_go_down ==
                 /\ (point[2] + dimensions(figure)[2]) < dim[2]
                 /\ ~ _figure_overlaps_cells(g, << point[1], point[2] + 1 >>, figure)
             called == IF (point[2] + dimensions(figure)[2]) < dim[2]
                       THEN overlap_points(g, << point[1], point[2] + 1 >>, figure)
                       ELSE g
         IN IF can_go_down
            THEN [g |-> set_figure(called, << point[1], point[2] + 1 >>, fig.color,
                                   figure),
                  ret |-> TRUE]
            ELSE [g |-> lock_cells(called, point, fig_dim, 0), ret |-> FALSE]

(* while self._try_move_figure_down() {}, counting the iterations that     *)
(* returned true.                                                          *)
RECURSIVE move_figure_down_from(_, _)
move_figure_down_from(g, steps) ==
    LET again(r) == IF r.ret
                    THEN move_figure_down_from(r.g, steps + 1)
                    ELSE [g |-> r.g, steps |-> steps]
    IN again(_try_move_figure_down(g))

move_figure_down(g) == move_figure_down_from(g, 0)

max(a, b) == IF a >= b THEN a ELSE b

min(a, b) == IF a <= b THEN a ELSE b

(* rotate_clockwise without the min against the right and bottom walls.    *)
rotate_clockwise_unclamped(g) ==
    LET fig == get_figure(g)[1]
        point == fig.point
        rot == Figure_rotate_clockwise(fig.figure)
        offset == rot[1]
        rotated_figure == rot[2]
        new_x == max(0, point[1] + offset[1])
        new_y == max(0, point[2] + offset[2])
    IN set_figure(g, <<new_x, new_y>>, fig.color, rotated_figure)

(* rotate_clockwise that leaves the figure alone when the rotated figure   *)
(* would overlap a locked cell.                                            *)
rotate_clockwise_rejecting(g) ==
    LET fig == get_figure(g)[1]
        point == fig.point
        rot == Figure_rotate_clockwise(fig.figure)
        offset == rot[1]
        rotated_figure == rot[2]
        new_x0 == max(0, point[1] + offset[1])
        new_y0 == max(0, point[2] + offset[2])
        fig_dim == dimensions(rotated_figure)
        new_x == min(new_x0, dim[1] - fig_dim[1])
        new_y == min(new_y0, dim[2] - fig_dim[2])
    IN IF _figure_overlaps_cells(g, <<new_x, new_y>>, rotated_figure)
       THEN g
       ELSE set_figure(g, <<new_x, new_y>>, fig.color, rotated_figure)

rotate_clockwise(g) ==
    LET fig == get_figure(g)[1]
        point == fig.point
        rot == Figure_rotate_clockwise(fig.figure)
        offset == rot[1]
        rotated_figure == rot[2]
        new_x0 == max(0, point[1] + offset[1])
        new_y0 == max(0, point[2] + offset[2])
        fig_dim == dimensions(rotated_figure)
        new_x == min(new_x0, dim[1] - fig_dim[1])
        new_y == min(new_y0, dim[2] - fig_dim[2])
    IN set_figure(g, <<new_x, new_y>>, fig.color, rotated_figure)

(* The pop as an `if` instead of a `while`: one flag popped per visit.     *)
pop_filled_lines_once(filled_lines, offset) ==
    IF filled_lines = <<>>
    THEN [panicked |-> TRUE, filled_lines |-> filled_lines, offset |-> offset]
    ELSE [panicked |-> FALSE,
          filled_lines |-> SubSeq(filled_lines, 1, Len(filled_lines) - 1),
          offset |-> IF filled_lines[Len(filled_lines)] THEN offset + dim[1] ELSE offset]

(* while filled_lines.pop().unwrap() { offset += dim.0 }                   *)
RECURSIVE pop_filled_lines(_, _)
pop_filled_lines(filled_lines, offset) ==
    IF filled_lines = <<>>
    THEN [panicked |-> TRUE, filled_lines |-> filled_lines, offset |-> offset]
    ELSE LET popped == filled_lines[Len(filled_lines)]
             rest == SubSeq(filled_lines, 1, Len(filled_lines) - 1)
         IN IF popped
            THEN pop_filled_lines(rest, offset + dim[1])
            ELSE [panicked |-> FALSE, filled_lines |-> rest, offset |-> offset]

(* for _ in 0 .. dim.0 { ... }: the n remaining cells of one line.         *)
RECURSIVE shift_cells(_, _, _, _)
shift_cells(cells, offset, cell_position, n) ==
    IF n = 0
    THEN cells
    ELSE LET pos == cell_position - 1
             new_cell == IF pos >= offset THEN cells[pos - offset] ELSE None
         IN shift_cells(IF offset # 0 THEN [cells EXCEPT ![pos] = new_cell] ELSE cells,
                        offset, pos, n - 1)

(* for line in 0 .. dim.1 { ... }: the iterations from the k-th on.        *)
RECURSIVE compact_lines(_, _, _, _, _)
compact_lines(g, filled_lines, offset, cell_position, k) ==
    IF k = dim[2] \/ g.panicked
    THEN g
    ELSE LET line == dim[2] - k
             p == IF line = Len(filled_lines)
                  THEN pop_filled_lines(filled_lines, offset)
                  ELSE [panicked |-> FALSE, filled_lines |-> filled_lines,
                        offset |-> offset]
         IN IF p.panicked
            THEN [g EXCEPT !.panicked = TRUE]
            ELSE compact_lines(
                     [g EXCEPT !.cells = shift_cells(g.cells, p.offset, cell_position, dim[1])],
                     p.filled_lines, p.offset, cell_position - dim[1], k + 1)

(* remove_filled_lines taking a line for filled as soon as one of its       *)
(* cells is occupied.                                                      *)
remove_filled_lines_any(g) ==
    LET filled_lines ==
            [line \in 1 .. dim[2] |->
                \E x \in 0 .. dim[1] - 1 : g.cells[(line - 1) * dim[1] + x] # None]
        any_filled_line == \E line \in 1 .. dim[2] : filled_lines[line]
        cell_position == dim[1] * dim[2]
    IN IF ~ any_filled_line
       THEN g
       ELSE compact_lines(g, filled_lines, 0, cell_position, 0)

remove_filled_lines(g) ==
    LET filled_lines ==
            [line \in 1 .. dim[2] |->
                \A x \in 0 .. dim[1] - 1 : g.cells[(line - 1) * dim[1] + x] # None]
        any_filled_line == \E line \in 1 .. dim[2] : filled_lines[line]
        cell_position == dim[1] * dim[2]
    IN IF ~ any_filled_line
       THEN g
       ELSE compact_lines(g, filled_lines, 0, cell_position, 0)

(* CellScreenRenderer::render_cell_screen, as far as it can abort: the     *)
(* assertions on the layers' bounds and the unwrap of each layer cell.     *)
render_cell_screen(g) ==
    IF get_figure(g) = <<>>
    THEN g
    ELSE LET fig == get_figure(g)[1]
             layer_x0 == fig.point[1]
             layer_y0 == fig.point[2]
             layer_width == dimensions(fig.figure)[1]
             layer_height == dimensions(fig.figure)[2]
         IN IF /\ layer_x0 + layer_width <= dim[1]
               /\ layer_y0 + layer_height <= dim[2]
               /\ Len(g._figure_layer) >= layer_width * layer_height
            THEN g
            ELSE [g EXCEPT !.panicked = TRUE]

GameInputEvent ==
    {"RotateClockwise", "MoveLeft", "MoveRight", "MoveDown", "Timer"}

(* The match of handle_event: the game after the arm, recreate_figure and  *)
(* the number of one-row advances the arm made.                            *)
handle_event_arm(g, event) ==
    CASE event = "Timer" ->
           LET arm(r) == [g |-> r.g, recreate_figure |-> ~ r.ret,
                          steps |-> IF r.ret THEN 1 ELSE 0]
           IN arm(_try_move_figure_down(g))
      [] event = "MoveLeft" ->
           [g |-> IF has_figure(g) THEN move_figure_left(g) ELSE g,
            recreate_figure |-> FALSE, steps |-> 0]
      [] event = "MoveRight" ->
           [g |-> IF has_figure(g) THEN move_figure_right(g) ELSE g,
            recreate_figure |-> FALSE, steps |-> 0]
      [] event = "MoveDown" ->
           LET arm(r) == [g |-> r.g, recreate_figure |-> TRUE, steps |-> r.steps]
           IN arm(IF has_figure(g) THEN move_figure_down(g)
                  ELSE [g |-> g, steps |-> 0])
      [] event = "RotateClockwise" ->
           [g |-> IF has_figure(g) THEN rotate_clockwise(g) ELSE g,
            recreate_figure |-> FALSE, steps |-> 0]

(* handle_event after the match, up to the draw of the next figure:        *)
(* remove_filled_lines if recreate_figure.  arm is what the match left;    *)
(* merged are the cells after the match, spawning tells that               *)
(* create_new_figure is about to be called.                                *)
handle_event_clear(arm) ==
    LET clearing == arm.recreate_figure /\ ~ arm.g.panicked
        cleared(g2) == [g |-> g2,
                        recreate_figure |-> arm.recreate_figure,
                        steps |-> arm.steps,
                        merged |-> arm.g.cells,
                        spawning |-> clearing /\ ~ g2.panicked]
    IN cleared(IF clearing THEN remove_filled_lines(arm.g) ELSE arm.g)

(* The rest of handle_event: create_new_figure with the value u of the     *)
(* random source, then the rendering.                                      *)
handle_event_spawn(p, u) ==
    LET rendered(c) ==
            [g |-> IF c.ret /\ ~ c.g.panicked THEN render_cell_screen(c.g) ELSE c.g,
             ret |-> c.ret,
             recreate_figure |-> p.recreate_figure,
             steps |-> p.steps,
             merged |-> p.merged,
             cleared |-> p.g.cells,
             drawn |-> IF p.spawning THEN << Figure_rand(u) >> ELSE <<>>]
    IN rendered(IF p.spawning THEN create_new_figure(p.g, u)
                ELSE [g |-> p.g, ret |-> TRUE])

handle_event(g, event, u) ==
    handle_event_spawn(handle_event_clear(handle_event_arm(g, event)), u)

(* TetrisGame::new with the value u of the random source.                  *)
TetrisGame_new(u) ==
    LET created(c) == IF c.ret THEN c.g ELSE [c.g EXCEPT !.panicked = TRUE]
    IN created(create_new_figure(TetrisCellScreen_new, u))

(***************************************************************************)
(* The sdl2 events, as far as run and from_sdl_event tell them apart: the  *)
(* type, the code of a user event, the key of a key press, whether the     *)
(* press is a repeat of a held key, and the milliseconds since the key     *)
(* went down.                                                              *)
(***************************************************************************)
PERIOD_MS == 333

Keycode == {"Q", "Escape", "P", "Left", "Right", "Down", "Space", "Up"}

timer_event ==
    [type |-> "User", code |-> 0, keycode |-> None, repeat |-> FALSE, timestamp |-> 0]

Quit_event ==
    [type |-> "Quit", code |-> 0, keycode |-> None, repeat |-> FALSE, timestamp |-> 0]

KeyDown(keycode, repeat, timestamp) ==
    [type |-> "KeyDown", code |-> 0, keycode |-> keycode, repeat |-> repeat,
     timestamp |-> timestamp]

(* GameInputEvent::from_sdl_event: <<event>> for Some(event), <<>> for     *)
(* None.  The repeat flag and the timestamp are not looked at.             *)
from_sdl_event(event) ==
    IF event.type = "User" /\ event.code = 0
    THEN <<"Timer">>
    ELSE IF event.type = "KeyDown" /\ event.keycode # None
         THEN CASE event.keycode = "Left" -> <<"MoveLeft">>
                [] event.keycode = "Right" -> <<"MoveRight">>
                [] event.keycode \in {"Down", "Space"} -> <<"MoveDown">>
                [] event.keycode = "Up" -> <<"RotateClockwise">>
                [] OTHER -> <<>>
         ELSE <<>>

(* The closure run hands to add_timer: it pushes timer_event and returns   *)
(* the interval until it is called again.                                  *)
timer_callback == PERIOD_MS

(* The arms of run's match that return.                                    *)
run_returns(event) ==
    \/ event.type = "Quit"
    \/ event.type = "KeyDown" /\ event.keycode \in {"Q", "Escape"}

(* The arm of run's match for the P key.                                   *)
run_toggles(event) == event.type = "KeyDown" /\ event.keycode = "P"

(* The arm for the P key: the timer is added if there is none, dropped if  *)
(* there is one.  timer is whether the Option holds a timer, period the    *)
(* interval the timer was armed with last.                                 *)
toggle_timer(timer, period) ==
    IF ~ timer
    THEN [timer |-> TRUE, period |-> PERIOD_MS]
    ELSE [timer |-> FALSE, period |-> period]

(***************************************************************************)
(* TetrisGame::run, the arm `event => if running { ... }`.  A run state is *)
(* [g, running, h]; h records the event last taken from the queue and      *)
(* what its handling went through, for the properties that relate the      *)
(* state before an event to the state after it.                            *)
(***************************************************************************)
Unhandled(g, event) ==
    [event |-> event, handled |-> FALSE, ret |-> TRUE,
     cells |-> g.cells, _figure |-> g._figure,
     recreate_figure |-> FALSE, steps |-> 0,
     merged |-> g.cells, cleared |-> g.cells, drawn |-> <<>>,
     addressed |-> g.addressed]

(* The arm without `if running`: every event is handed to handle_event.    *)
handles_always(st) == TRUE

(* `event => if running { ... }`: whether run hands the event to           *)
(* handle_event.                                                           *)
handles(st) == st.running

(* The state after handle_event has returned r for the event.              *)
run_handled(st, event, r) ==
    [g |-> [r.g EXCEPT !.addressed = {}],
     running |-> IF r.g.panicked THEN st.running ELSE r.ret,
     h |-> [event |-> event, handled |-> TRUE, ret |-> r.ret,
            cells |-> st.g.cells, _figure |-> st.g._figure,
            recreate_figure |-> r.recreate_figure, steps |-> r.steps,
            merged |-> r.merged, cleared |-> r.cleared, drawn |-> r.drawn,
            addressed |-> r.g.addressed]]

run_event(st, event, u) ==
    IF handles(st)
    THEN run_handled(st, event, handle_event(st.g, event, u))
    ELSE [g |-> st.g, running |-> st.running, h |-> Unhandled(st.g, event)]

run_start(u) ==
    LET started(g) == [g |-> [IF g.panicked THEN g ELSE render_cell_screen(g)
                                 EXCEPT !.addressed = {}],
                       running |-> TRUE,
                       h |-> Unhandled(g, "new")]
    IN started(TetrisGame_new(u))

(***************************************************************************)
(* Bounds of the exploration.                                              *)
(***************************************************************************)
(* The values the random source yields: one per family of figures; the    *)
(* other members of a family are reached by rotation.                      *)
RngValues == {0, 4, 6, 8, 13, 16, 20, 24}

(* Figures drawn by create_new_figure after the initial state.             *)
MaxSpawns == 1

(* MoveLeft, MoveRight and RotateClockwise events handled after the        *)
(* initial state.                                                          *)
MaxSteer == 2

(***************************************************************************)
(* Recorded openings.  An initial state is the state of a new game after   *)
(* one of these input sequences has been replayed through run_event, so    *)
(* that the exploration also starts from boards many figures into a game.  *)
(* An opening is the value of the first draw and a sequence of             *)
(* <<event, value drawn if the event spawns>>.                             *)
(***************************************************************************)
Rep(n, e) == [i \in 1 .. n |-> e]

Left(n) == Rep(n, <<"MoveLeft", 0>>)

Right(n) == Rep(n, <<"MoveRight", 0>>)

Drop(u) == << <<"MoveDown", u>> >>

(* Three vertical lines dropped onto each other in column 5, a RightL90    *)
(* falling.                                                                *)
OpeningTower ==
    [first |-> 6, events |-> Drop(6) \o Drop(6) \o Drop(13)]

(* The same, the RightL90 dropped onto the tower and a vertical line       *)
(* drawn, which does not fit: the game is over.                            *)
OpeningOver ==
    [first |-> 6, events |-> Drop(6) \o Drop(6) \o Drop(13) \o Drop(6)]

(* Rows 13 and 15 filled in columns 0..8, row 14 only in columns 2, 5 and  *)
(* 8; a vertical line falling in column 9.                                 *)
OpeningGap ==
    [first |-> 9,
     events |-> Left(3) \o Drop(9) \o Drop(9) \o Right(3) \o Drop(4)
                \o Left(3) \o Drop(4) \o Right(1) \o Drop(6)
                \o Right(3) \o Drop(6) \o Right(4)]

(* Row 0 filled except in columns 3..6, column 3 filled in rows 1..3; a    *)
(* horizontal line falling at (3, 0).                                      *)
OpeningTop ==
    [first |-> 6,
     events |-> Left(2) \o Drop(6) \o Left(2) \o Drop(10) \o Left(1) \o Drop(6)
                \o Right(1) \o Drop(6) \o Right(1) \o Drop(14) \o Right(1) \o Drop(4)
                \o Left(3) \o Drop(4) \o Right(3) \o Drop(6)
                \o Left(5) \o Drop(6) \o Left(4) \o Drop(6) \o Left(3) \o Drop(6)
                \o Right(4) \o Drop(6) \o Right(3) \o Drop(6) \o Right(2) \o Drop(10)
                \o Left(1) \o Drop(4)]

(* A vertical line moved to the left wall.                                 *)
OpeningLeft ==
    [first |-> 6, events |-> Left(5)]

(* Column 0 filled over all rows, column 1 in rows 12..15, rows 14 and 15  *)
(* also in columns 2..7; a cube falling over columns 8 and 9.              *)
OpeningTwoRows ==
    [first |-> 6,
     events |-> Left(5) \o Drop(6) \o Left(5) \o Drop(6) \o Left(5) \o Drop(6)
                \o Left(5) \o Drop(6) \o Left(4) \o Drop(0)
                \o Left(2) \o Drop(0) \o Drop(0) \o Right(2) \o Drop(0) \o Right(4)]

Openings ==
    {[first |-> u, events |-> <<>>] : u \in RngValues}
    \cup {OpeningTower, OpeningOver, OpeningGap, OpeningTop, OpeningLeft,
          OpeningTwoRows}

RECURSIVE replay(_, _, _)
replay(st, events, i) ==
    IF i > Len(events) \/ st.g.panicked
    THEN st
    ELSE replay(run_event(st, events[i][1], events[i][2]), events, i + 1)

Opened(o) == replay(run_start(o.first), o.events, 1)

(***************************************************************************)
(* The state machine.                                                      *)
(***************************************************************************)
VARIABLES cells, _figure, _figure_layer, panicked, running, h, spawned, steered,
          looping, timer, period, pending, polled

vars == <<cells, _figure, _figure_layer, panicked, running, h, spawned, steered,
          looping, timer, period, pending, polled>>

game ==
    [cells |-> cells, _figure |-> _figure, _figure_layer |-> _figure_layer,
     panicked |-> panicked, addressed |-> {}]

(* run up to its loop: the game as an opening left it, the timer added     *)
(* with PERIOD_MS, no event of the timer in the queue, nothing polled yet. *)
(* looping tells that run has not returned.                                *)
InitFrom(openings) ==
    \E o \in openings : \E st \in {Opened(o)} :
           /\ cells = st.g.cells
           /\ _figure = st.g._figure
           /\ _figure_layer = st.g._figure_layer
           /\ panicked = st.g.panicked
           /\ running = st.running
           /\ h = st.h
           /\ spawned = 0
           /\ steered = 0
           /\ looping = TRUE
           /\ timer = TRUE
           /\ period = PERIOD_MS
           /\ pending = 0
           /\ polled = <<>>

Init == InitFrom(Openings)

Steering == {"MoveLeft", "MoveRight", "RotateClockwise"}

(* The state st replaces the current one; steers and spawns tell which    *)
(* budgets the step uses.                                                  *)
Becomes(st, steers, spawns) ==
    /\ steers => steered < MaxSteer
    /\ spawns => spawned < MaxSpawns
    /\ cells' = st.g.cells
    /\ _figure' = st.g._figure
    /\ _figure_layer' = st.g._figure_layer
    /\ panicked' = st.g.panicked
    /\ running' = st.running
    /\ h' = st.h
    /\ steered' = IF steers THEN steered + 1 ELSE steered
    /\ spawned' = IF spawns THEN spawned + 1 ELSE spawned

(* handle_event that takes a second value v from the random source and    *)
(* creates the figure from it.                                             *)
Handled_redrawing(st, event, p, u, steers) ==
    \E v \in RngValues :
      \E r \in {handle_event_spawn(p, v)} :
        Becomes(run_handled(st, event,
                            [r EXCEPT !.drawn = IF p.spawning
                                                THEN << Figure_rand(u) >>
                                                ELSE <<>>]),
                steers, p.spawning)

(* handle_event goes on from p, where the event has been applied and the   *)
(* filled lines removed, with the value u of the random source, and run    *)
(* takes what it returns.                                                  *)
Handled(st, event, p, u, steers) ==
    \E r \in {handle_event_spawn(p, u)} :
        Becomes(run_handled(st, event, r), steers, p.spawning)

(* One event taken from the queue by run's loop that falls to the last     *)
(* arm of the match, that is run_event of the current state for the event  *)
(* from_sdl_event makes of it; the value u of the random source is chosen  *)
(* only when handle_event reaches create_new_figure.  The repeats of a     *)
(* held key are bounded by HeldTimes, not by MaxSteer.                     *)
Dispatch(sdl) ==
    /\ looping
    /\ ~ panicked
    /\ ~ run_returns(sdl)
    /\ ~ run_toggles(sdl)
    /\ polled' = <<sdl>>
    /\ looping' = looping
    /\ timer' = timer
    /\ \E e \in {from_sdl_event(sdl)} :
         LET st == [g |-> game, running |-> running, h |-> h]
         IN IF e = <<>>
            THEN Becomes(st, FALSE, FALSE)
            ELSE IF handles(st)
                 THEN \E p \in {handle_event_clear(handle_event_arm(game, e[1]))} :
                        \E u \in IF p.spawning THEN RngValues ELSE {0} :
                          Handled(st, e[1], p, u, e[1] \in Steering /\ ~ sdl.repeat)
                 ELSE Becomes([g |-> game, running |-> running,
                               h |-> Unhandled(game, e[1])],
                              FALSE, FALSE)

(* A key goes down.                                                        *)
KeyPress(keycode) ==
    /\ Dispatch(KeyDown(keycode, FALSE, 0))
    /\ UNCHANGED <<period, pending>>

(* The timer fires and the loop takes its event at once.                   *)
Timer ==
    /\ timer
    /\ period' = timer_callback
    /\ pending' = pending
    /\ Dispatch(timer_event)

MoveLeft == KeyPress("Left")

MoveRight == KeyPress("Right")

MoveDown == KeyPress("Down")

RotateClockwise == KeyPress("Up")

Next == Timer \/ MoveLeft \/ MoveRight \/ MoveDown \/ RotateClockwise

Spec == Init /\ [][Next]_vars

(***************************************************************************)
(* The loop of run with its other arms, the queue between the timer and    *)
(* the loop, and held keys.                                                *)
(***************************************************************************)
(* Events of the timer that may wait in the queue.                         *)
MaxPending == 1

(* Milliseconds after a key went down at which a repeat of it is           *)
(* reported while it is held: one frame every 20 ms.                       *)
HeldTimes == {20, 40, 60, 80}

(* The game three figures in, a fourth falling.                            *)
RunOpenings == {OpeningTower}

InitRun == InitFrom(RunOpenings)

(* The timer calls timer_callback, which pushes timer_event.               *)
TimerFires ==
    /\ looping
    /\ ~ panicked
    /\ timer
    /\ pending < MaxPending
    /\ pending' = pending + 1
    /\ period' = timer_callback
    /\ UNCHANGED <<cells, _figure, _figure_layer, panicked, running, h, spawned,
                   steered, looping, timer, polled>>

(* The loop takes an event of the timer from the queue.                    *)
PollTimer ==
    /\ pending > 0
    /\ pending' = pending - 1
    /\ period' = period
    /\ Dispatch(timer_event)

(* The loop takes an event of an arm that returns.                         *)
Returns(sdl) ==
    /\ looping
    /\ ~ panicked
    /\ run_returns(sdl)
    /\ looping' = FALSE
    /\ polled' = <<sdl>>
    /\ UNCHANGED <<cells, _figure, _figure_layer, panicked, running, h, spawned,
                   steered, timer, period, pending>>

Quit ==
    \E sdl \in {Quit_event, KeyDown("Q", FALSE, 0), KeyDown("Escape", FALSE, 0)} :
        Returns(sdl)

(* The loop takes a press of the P key.                                    *)
Toggles(sdl) ==
    /\ looping
    /\ ~ panicked
    /\ run_toggles(sdl)
    /\ \E t \in {toggle_timer(timer, period)} :
          /\ timer' = t.timer
          /\ period' = t.period
    /\ polled' = <<sdl>>
    /\ UNCHANGED <<cells, _figure, _figure_layer, panicked, running, h, spawned,
                   steered, looping, pending>>

PauseKey == Toggles(KeyDown("P", FALSE, 0))

HardDropKey == KeyPress("Space")

(* The times at which the key polled last, still held, is reported next.   *)
HeldNext(keycode) ==
    IF polled # <<>> /\ polled[1].type = "KeyDown" /\ polled[1].keycode = keycode
    THEN { t \in HeldTimes :
             /\ polled[1].timestamp < t
             /\ \A t2 \in HeldTimes : polled[1].timestamp < t2 => t <= t2 }
    ELSE {}

HeldLeft ==
    \E t \in HeldNext("Left") :
        /\ Dispatch(KeyDown("Left", TRUE, t))
        /\ UNCHANGED <<period, pending>>

HeldPause == \E t \in HeldNext("P") : Toggles(KeyDown("P", TRUE, t))

(* Of the keys that steer, the left one is pressed and held here; the      *)
(* others are pressed in Spec.                                             *)
NextRun ==
    \/ TimerFires \/ PollTimer
    \/ MoveLeft \/ HardDropKey
    \/ HeldLeft \/ Quit \/ PauseKey \/ HeldPause

SpecRun == InitRun /\ [][NextRun]_vars

(***************************************************************************)
(* The first figure of a new game under gravity.  The timer is running     *)
(* and its events keep arriving; between them the player presses Left and  *)
(* Right and holds the Up key, whose repeats from_sdl_event maps to        *)
(* RotateClockwise like a press.  The exploration ends when the figure     *)
(* has been grounded and the next one drawn.                               *)
(***************************************************************************)
(* A new game whose first figure is LineHorizontal.                        *)
LiveOpenings == {[first |-> 4, events |-> <<>>]}

InitLive == InitFrom(LiveOpenings)

(* The figure of the initial state is still the active one.                *)
Falling == spawned = 0

TimerLive == Falling /\ Timer

LeftLive == Falling /\ MoveLeft

RightLive == Falling /\ MoveRight

HeldRotate ==
    /\ Falling
    /\ \E t \in HeldTimes :
          /\ \A t2 \in HeldTimes : t2 <= t
          /\ Dispatch(KeyDown("Up", TRUE, t))
    /\ UNCHANGED <<period, pending>>

NextLive == TimerLive \/ LeftLive \/ RightLive \/ HeldRotate

SpecLive == InitLive /\ [][NextLive]_vars /\ WF_vars(TimerLive)

(***************************************************************************)
(* Vocabulary of the properties.  These say what a board and a placement   *)
(* are, without the loops of the code.                                     *)
(***************************************************************************)
Cell(c, p) == c[p[2] * CELL_COUNT_X + p[1]]

InGrid(p) == p[1] \in 0 .. CELL_COUNT_X - 1 /\ p[2] \in 0 .. CELL_COUNT_Y - 1

(* The board points a figure anchored at point occupies.                   *)
Footprint(point, figure) ==
    LET w == dimensions(figure)[1]
        ht == dimensions(figure)[2]
    IN { <<point[1] + q[1], point[2] + q[2]>> :
            q \in { r \in (0 .. w - 1) \X (0 .. ht - 1) :
                       bitmap(figure)[r[2] * w + r[1] + 1] } }

(* Some point the figure occupies at point is a locked cell of c.          *)
Collides(c, point, figure) ==
    \E p \in Footprint(point, figure) : InGrid(p) /\ Cell(c, p) # None

(* The figure fits the grid at point.                                      *)
InBounds(point, figure) ==
    /\ point[1] >= 0
    /\ point[2] >= 0
    /\ point[1] + dimensions(figure)[1] <= CELL_COUNT_X
    /\ point[2] + dimensions(figure)[2] <= CELL_COUNT_Y

(* The board c with the figure merged into it at point in colour col.      *)
Merged(c, point, figure, col) ==
    [i \in CellIndex |->
        IF << i % CELL_COUNT_X, i \div CELL_COUNT_X >> \in Footprint(point, figure)
        THEN col
        ELSE c[i]]

(* A one-row advance of the figure from (x, y) is legal on board c.        *)
LegalDown(c, figure, x, y) ==
    /\ y + dimensions(figure)[2] < CELL_COUNT_Y
    /\ ~ Collides(c, <<x, y + 1>>, figure)

(* The smallest y2 >= y at which a one-row advance is illegal.             *)
RestRow(c, figure, x, y) ==
    CHOOSE y2 \in y .. CELL_COUNT_Y :
        /\ ~ LegalDown(c, figure, x, y2)
        /\ \A y1 \in y .. y2 - 1 : LegalDown(c, figure, x, y1)

SpawnPoint(figure) ==
    << CELL_COUNT_X \div 2 + offset_from_top_center(figure)[1], 0 >>

FullRows(c) ==
    { y \in 0 .. CELL_COUNT_Y - 1 :
         \A x \in 0 .. CELL_COUNT_X - 1 : Cell(c, <<x, y>>) # None }

(* Standard line clearing: every full row removed, each other row lower by *)
(* the number of full rows below it, the rows on top empty.                *)
StandardClear(c) ==
    LET full == FullRows(c)
        kept == (0 .. CELL_COUNT_Y - 1) \ full
        lands(y) == y + Cardinality({f \in full : f > y})
    IN [i \in CellIndex |->
          LET x == i % CELL_COUNT_X
              row == i \div CELL_COUNT_X
          IN IF \E y \in kept : lands(y) = row
             THEN Cell(c, <<x, CHOOSE y \in kept : lands(y) = row>>)
             ELSE None]

Clamp(v, lo, hi) == IF v < lo THEN lo ELSE IF v > hi THEN hi ELSE v

(* The event last dispatched was handled with a figure active.             *)
HandledWithFigure(event) ==
    h.event = event /\ h.handled /\ h._figure # <<>>

(* The last event grounded the active figure, at the row it had reached.   *)
Grounded == h.handled /\ h.recreate_figure /\ h._figure # <<>>

GroundPoint == << h._figure[1].point[1], h._figure[1].point[2] + h.steps >>

(***************************************************************************)
(* C1.  No-overlap invariant: in every state reachable from a new game by  *)
(* Timer, MoveLeft, MoveRight, MoveDown and RotateClockwise events, no     *)
(* board point occupied by the active figure is a locked cell.             *)
(***************************************************************************)
NoOverlap ==
    (_figure # <<>> /\ ~ panicked)
        => ~ Collides(cells, _figure[1].point, _figure[1].figure)

(***************************************************************************)
(* C2.  Line clearing yields the standard result for any set of full rows, *)
(* contiguous or not: whenever remove_filled_lines has run to its end, the *)
(* cells after it are the standard clearing of the cells before it.        *)
(***************************************************************************)
LineClearStandard ==
    (h.handled /\ h.recreate_figure /\ ~ panicked)
        => h.cleared = StandardClear(h.merged)

(***************************************************************************)
(* C3.  Boundary invariant: the active figure's anchor is non-negative and *)
(* anchor plus dimensions stays within the board, and the renderer's       *)
(* assertions on the layers hold (render_cell_screen does not abort).      *)
(***************************************************************************)
BoundaryInvariant ==
    /\ _figure # <<>> => InBounds(_figure[1].point, _figure[1].figure)
    /\ ~ panicked => render_cell_screen(game) = game

(* A rotation taken at the right wall, where the translated anchor had to  *)
(* be pulled back.                                                         *)
BoundaryWitness ==
    /\ HandledWithFigure("RotateClockwise")
    /\ h._figure[1].point[1] + Figure_rotate_clockwise(h._figure[1].figure)[1][1]
          + dimensions(_figure[1].figure)[1] > CELL_COUNT_X
    /\ _figure[1].point[1] + dimensions(_figure[1].figure)[1] = CELL_COUNT_X

(***************************************************************************)
(* C4.  Game over is reported as a value: when handle_event draws a figure *)
(* that overlaps a locked cell at its spawn anchor it returns false, the   *)
(* cells are those before the spawn attempt and no figure is installed;    *)
(* when the figure does not overlap it is installed at the spawn anchor    *)
(* and handle_event returns true.                                          *)
(***************************************************************************)
GameOverReported ==
    (h.handled /\ h.drawn # <<>>) =>
        LET figure == h.drawn[1]
        IN /\ cells = h.cleared
           /\ ~ panicked
           /\ IF Collides(h.cleared, SpawnPoint(figure), figure)
              THEN ~ h.ret /\ ~ running /\ _figure = <<>>
              ELSE /\ h.ret
                   /\ running
                   /\ _figure = << [point |-> SpawnPoint(figure),
                                    color |-> color(figure),
                                    figure |-> figure] >>

(* A handled event within the exploration drew a figure that overlaps      *)
(* locked cells at its spawn anchor.                                       *)
GameOverWitness ==
    /\ h.handled
    /\ h.drawn # <<>>
    /\ Collides(h.cleared, SpawnPoint(h.drawn[1]), h.drawn[1])
    /\ ~ running
    /\ spawned > 0

(***************************************************************************)
(* C5.  Once a handled event has reported game over, no later event        *)
(* changes the cells or installs a figure.                                 *)
(***************************************************************************)
GameOverIsFinal ==
    [][~ running => (cells' = cells /\ _figure' = <<>> /\ ~ running')]_vars

(* An event that arrived after game over and was not handled.              *)
GameOverFinalWitness ==
    ~ running /\ ~ h.handled /\ h.event \in GameInputEvent /\ _figure = <<>>

(***************************************************************************)
(* C6.  Gravity step rule: _try_move_figure_down moves the anchor one row  *)
(* down and returns true iff y + h < board height and the shape does not   *)
(* overlap a locked cell at (x, y + 1); otherwise the anchor stays and it  *)
(* returns false.  A Timer event advances the figure by exactly one row    *)
(* or grounds it.                                                          *)
(***************************************************************************)
GravityStepRule ==
    /\ (_figure # <<>> /\ ~ panicked) =>
          LET fig == _figure[1]
              r == _try_move_figure_down(game)
              legal == LegalDown(cells, fig.figure, fig.point[1], fig.point[2])
          IN /\ r.ret <=> legal
             /\ r.g._figure =
                   << [fig EXCEPT !.point =
                          IF legal THEN << fig.point[1], fig.point[2] + 1 >>
                          ELSE fig.point] >>
             /\ legal => r.g.cells = cells
    /\ HandledWithFigure("Timer") =>
          LET fig == h._figure[1]
              legal == LegalDown(h.cells, fig.figure, fig.point[1], fig.point[2])
          IN IF legal
             THEN /\ ~ h.recreate_figure
                  /\ h.steps = 1
                  /\ cells = h.cells
                  /\ _figure = << [fig EXCEPT !.point =
                                      << fig.point[1], fig.point[2] + 1 >>] >>
             ELSE h.recreate_figure /\ h.steps = 0

(* A Timer event that grounded the figure above the floor, on locked       *)
(* cells.                                                                  *)
GravityWitness ==
    /\ HandledWithFigure("Timer")
    /\ h.recreate_figure
    /\ h._figure[1].point[2] + dimensions(h._figure[1].figure)[2] < CELL_COUNT_Y

(***************************************************************************)
(* C7.  Lock effect: when a figure grounds at (x, y), exactly the points   *)
(* of its footprint there take its colour and every other cell, also under *)
(* the false positions of its bitmap, keeps its value.                     *)
(***************************************************************************)
LockEffect ==
    Grounded =>
        h.merged = Merged(h.cells, GroundPoint, h._figure[1].figure, h._figure[1].color)

(* A figure grounded with a false position of its bitmap over a locked     *)
(* cell.                                                                   *)
LockWitness ==
    /\ Grounded
    /\ \E q \in (0 .. dimensions(h._figure[1].figure)[1] - 1)
                  \X (0 .. dimensions(h._figure[1].figure)[2] - 1) :
          LET p == << GroundPoint[1] + q[1], GroundPoint[2] + q[2] >>
          IN /\ p \notin Footprint(GroundPoint, h._figure[1].figure)
             /\ Cell(h.cells, p) # None
             /\ Cell(h.merged, p) = Cell(h.cells, p)

(***************************************************************************)
(* C8.  Hard drop: a MoveDown event with a figure active at (x, y) makes   *)
(* at most board-height one-row advances, locks the figure at (x, rest),   *)
(* rest the smallest row >= y from which an advance is illegal, and ends in *)
(* lock, line clearing and spawn: afterwards the active figure is the one  *)
(* just drawn at its spawn anchor, or there is none (game over).           *)
(***************************************************************************)
HardDrop ==
    HandledWithFigure("MoveDown") =>
        LET fig == h._figure[1]
            rest == RestRow(h.cells, fig.figure, fig.point[1], fig.point[2])
        IN /\ h.steps <= CELL_COUNT_Y
           /\ fig.point[2] + h.steps = rest
           /\ h.merged = Merged(h.cells, << fig.point[1], rest >>, fig.figure, fig.color)
           /\ ~ panicked
           /\ h.drawn # <<>>
           /\ \/ _figure = <<>>
              \/ _figure = << [point |-> SpawnPoint(h.drawn[1]),
                               color |-> color(h.drawn[1]),
                               figure |-> h.drawn[1]] >>

(***************************************************************************)
(* C9.  MoveLeft / MoveRight change the anchor x by -1 / +1 when the new x *)
(* lies in [0, board width - shape width] and the shape does not overlap a *)
(* locked cell there, and otherwise change nothing; either way the cells,  *)
(* shape, colour and anchor y stay, nothing is locked or drawn, and        *)
(* handle_event returns true.                                              *)
(***************************************************************************)
LateralMove ==
    \A event \in {"MoveLeft", "MoveRight"} :
        HandledWithFigure(event) =>
            LET fig == h._figure[1]
                x == fig.point[1] + (IF event = "MoveLeft" THEN -1 ELSE 1)
                ok == /\ x >= 0
                      /\ x <= CELL_COUNT_X - dimensions(fig.figure)[1]
                      /\ ~ Collides(h.cells, << x, fig.point[2] >>, fig.figure)
            IN /\ _figure = << [fig EXCEPT !.point =
                                   IF ok THEN << x, fig.point[2] >> ELSE fig.point] >>
               /\ cells = h.cells
               /\ ~ h.recreate_figure
               /\ h.drawn = <<>>
               /\ h.ret
               /\ running

(* A MoveRight inside the walls refused because of a locked cell.          *)
LateralWitness ==
    /\ HandledWithFigure("MoveRight")
    /\ h._figure[1].point[1] + 1 <= CELL_COUNT_X - dimensions(h._figure[1].figure)[1]
    /\ Collides(h.cells, << h._figure[1].point[1] + 1, h._figure[1].point[2] >>,
                h._figure[1].figure)
    /\ _figure = h._figure

(***************************************************************************)
(* C10.  RotateClockwise is never rejected: the shape becomes its catalog  *)
(* successor, the anchor the translated anchor clamped to the board; the   *)
(* colour and the cells stay and nothing is locked or drawn.               *)
(***************************************************************************)
RotateNeverRejected ==
    HandledWithFigure("RotateClockwise") =>
        LET fig == h._figure[1]
            rot == Figure_rotate_clockwise(fig.figure)
            d == dimensions(rot[2])
        IN /\ _figure =
                << [point |-> << Clamp(fig.point[1] + rot[1][1], 0, CELL_COUNT_X - d[1]),
                                 Clamp(fig.point[2] + rot[1][2], 0, CELL_COUNT_Y - d[2]) >>,
                    color |-> fig.color,
                    figure |-> rot[2]] >>
           /\ cells = h.cells
           /\ ~ h.recreate_figure
           /\ h.drawn = <<>>
           /\ h.ret

(* A rotation installed although the rotated figure overlaps locked cells. *)
RotateWitness ==
    /\ HandledWithFigure("RotateClockwise")
    /\ ~ Collides(h.cells, h._figure[1].point, h._figure[1].figure)
    /\ _figure # <<>>
    /\ Collides(cells, _figure[1].point, _figure[1].figure)

(***************************************************************************)
(* C11.  Ordering on grounding: whenever an event grounds the active       *)
(* figure, the handling of that event first merges the figure into the     *)
(* cells, then clears the full rows of the merged cells, then tests the    *)
(* drawn figure against the cleared cells, and ends with a fresh active    *)
(* figure or with game over.                                               *)
(***************************************************************************)
GroundingOrder ==
    Grounded =>
        /\ h.merged = Merged(h.cells, GroundPoint, h._figure[1].figure, h._figure[1].color)
        /\ h.cleared = remove_filled_lines([TetrisCellScreen_new EXCEPT !.cells = h.merged]).cells
        /\ ~ panicked
        /\ h.drawn # <<>>
        /\ h.ret <=> ~ Collides(h.cleared, SpawnPoint(h.drawn[1]), h.drawn[1])
        /\ cells = h.cleared
        /\ IF h.ret
           THEN running /\ _figure = << [point |-> SpawnPoint(h.drawn[1]),
                                         color |-> color(h.drawn[1]),
                                         figure |-> h.drawn[1]] >>
           ELSE ~ running /\ _figure = <<>>

(***************************************************************************)
(* C12.  Line-clear row count: when exactly the two bottom rows (14 and    *)
(* 15) of the merged cells are full and every other row is partially       *)
(* occupied, remove_filled_lines leaves rows 2..15 equal to the old rows   *)
(* 0..13 and rows 0 and 1 empty.                                           *)
(***************************************************************************)
PartialRows(c) ==
    { y \in 0 .. CELL_COUNT_Y - 1 :
         /\ y \notin FullRows(c)
         /\ \E x \in 0 .. CELL_COUNT_X - 1 : Cell(c, <<x, y>>) # None }

TwoBottomRowsFull(c) ==
    /\ FullRows(c) = {CELL_COUNT_Y - 2, CELL_COUNT_Y - 1}
    /\ PartialRows(c) = 0 .. CELL_COUNT_Y - 3

TwoRowClear ==
    (h.handled /\ h.recreate_figure /\ TwoBottomRowsFull(h.merged)) =>
        /\ ~ panicked
        /\ h.cleared = [i \in CellIndex |->
                           IF i >= 2 * CELL_COUNT_X
                           THEN h.merged[i - 2 * CELL_COUNT_X]
                           ELSE None]

(* A grounding that completed exactly rows 14 and 15 over fourteen         *)
(* partially occupied rows.                                                *)
TwoRowClearWitness ==
    /\ Grounded
    /\ TwoBottomRowsFull(h.merged)
    /\ FullRows(h.cells) = {}
    /\ FullRows(cells) = {}

(***************************************************************************)
(* C13.  Non-full clear is the identity: remove_filled_lines on a board    *)
(* with no full row leaves every cell unchanged -- applied to the board of *)
(* every reachable state, and where handle_event called it.                *)
(***************************************************************************)
NonFullClearIdentity ==
    /\ (~ panicked /\ FullRows(cells) = {}) => remove_filled_lines(game) = game
    /\ (h.handled /\ h.recreate_figure /\ FullRows(h.merged) = {}) =>
          (~ panicked /\ h.cleared = h.merged)

(* A grounding that completed no row, on a board with occupied cells in    *)
(* several rows.                                                           *)
NonFullClearWitness ==
    /\ Grounded
    /\ FullRows(h.merged) = {}
    /\ Cardinality(PartialRows(h.merged)) >= 4
    /\ h.cleared = h.merged
    /\ spawned > 0

(***************************************************************************)
(* C14.  Rotation cycle closure: for each of the 19 figures four           *)
(* applications of the clockwise successor give the figure back; two       *)
(* suffice for the four zigzags and the two lines, one for the cube.       *)
(***************************************************************************)
Successor(f) == Figure_rotate_clockwise(f)[2]

RotationCycles ==
    /\ Cardinality(Figure) = 19
    /\ \A f \in Figure :
          /\ Successor(f) \in Figure
          /\ Successor(Successor(Successor(Successor(f)))) = f
    /\ \A f \in {"LeftZigzagHorizontal", "LeftZigzagVertical",
                 "RightZigzagHorizontal", "RightZigzagVertical",
                 "LineHorizontal", "LineVertical"} :
          Successor(Successor(f)) = f
    /\ Successor("Cube") = "Cube"
    /\ HandledWithFigure("RotateClockwise") =>
          /\ _figure # <<>>
          /\ _figure[1].figure = Successor(h._figure[1].figure)

(* A second rotation in a row that brought a figure of a 2-cycle back to   *)
(* the shape it had.                                                       *)
RotationCyclesWitness ==
    /\ HandledWithFigure("RotateClockwise")
    /\ steered = 2
    /\ _figure[1].figure # h._figure[1].figure
    /\ Successor(_figure[1].figure) = h._figure[1].figure


(***************************************************************************)
(* C15: the loop of run terminates when a quit event, Q or Escape is       *)
(* polled, and also when a handled event has reported game over: once      *)
(* handle_event has returned false, run is no longer looping.              *)
(***************************************************************************)
LoopTerminates ==
    /\ (polled # <<>> /\ run_returns(polled[1])) => ~ looping
    /\ ~ running => ~ looping


(***************************************************************************)
(* C16: lateral repeats are throttled.  While the left key is held and     *)
(* reported every 20 ms, with a repeat interval of 100 ms, only the press  *)
(* moves the figure: a repeat polled less than 100 ms after the key went   *)
(* down leaves the figure where it is.                                     *)
(***************************************************************************)
ThrottledRepeat ==
    [][(/\ polled' # polled
        /\ polled'[1].type = "KeyDown"
        /\ polled'[1].keycode = "Left"
        /\ polled'[1].repeat
        /\ polled'[1].timestamp < 100) => _figure' = _figure]_vars


(***************************************************************************)
(* C17: pause is edge-triggered.  A press of the P key toggles whether     *)
(* the timer runs; while the key stays held, the repeated key-down events  *)
(* polled for it leave the timer as it is.                                 *)
(***************************************************************************)
PauseEdgeTriggered ==
    [][(/\ polled' # polled
        /\ run_toggles(polled'[1])
        /\ polled'[1].repeat) => timer' = timer]_vars


(***************************************************************************)
(* C18: difficulty ramp.  The period of the gravity timer is multiplied    *)
(* by a fraction less than 1 each time the number of figures spawned       *)
(* reaches a milestone: for some milestone within the figures spawned      *)
(* here, once that many figures have been spawned the period is below      *)
(* PERIOD_MS, the period the timer starts with.                            *)
(***************************************************************************)
DifficultyRamp ==
    \E milestone \in 1 .. MaxSpawns :
        spawned >= milestone => period < PERIOD_MS


(***************************************************************************)
(* C19: determinism.  The state after an event is a function of the state  *)
(* before it, the event and the value drawn from the random source: every  *)
(* step that handles or ignores an event ends in the state run_event       *)
(* gives for that event and for any value that yields the figure drawn,    *)
(* and a step that takes no event to the game leaves the game as it is.    *)
(* Two runs from a new game with the same values drawn and the same        *)
(* events therefore go through the same figures, boards and active         *)
(* figures.                                                                *)
(***************************************************************************)
DrawsOf(drawn) ==
    IF drawn = <<>> THEN {0} ELSE {u \in 0 .. 27 : Figure_rand(u) = drawn[1]}

AddressedInGrid ==
    \A p \in h.addressed :
        /\ InGrid(p)
        /\ p[2] * dim[1] + p[1] \in CellIndex

(* A figure locked in the bottom right corner of the board, the next one   *)
(* spawned.                                                                *)
AddressedWitness ==
    /\ h.handled
    /\ h.recreate_figure
    /\ h.drawn # <<>>
    /\ spawned > 0
    /\ << CELL_COUNT_X - 1, CELL_COUNT_Y - 1 >> \in h.addressed
    /\ \E p \in h.addressed : p[2] = 0


(***************************************************************************)
(* C21: overlay cache coherence.  In every reachable state with an active  *)
(* figure, _figure_layer has width * height entries of the figure's        *)
(* dimensions, and entry i is the figure's colour where its bitmap is      *)
(* true and empty elsewhere: what set_figure would build if it rebuilt     *)
(* the layer on every call.                                                *)
(***************************************************************************)
Overlay(col, figure) ==
    [i \in 1 .. Len(bitmap(figure)) |-> IF bitmap(figure)[i] THEN col ELSE None]

OverlayCoherent ==
    _figure # <<>> =>
        /\ Len(_figure_layer)
             = dimensions(_figure[1].figure)[1] * dimensions(_figure[1].figure)[2]
        /\ _figure_layer = Overlay(_figure[1].color, _figure[1].figure)

(* A rotation has changed the shape and kept the colour, after a spawn.    *)
OverlayWitness ==
    /\ h.handled
    /\ h.event = "RotateClockwise"
    /\ spawned > 0
    /\ h._figure # <<>>
    /\ _figure # <<>>
    /\ _figure[1].figure # h._figure[1].figure
    /\ _figure[1].color = h._figure[1].color


(***************************************************************************)
(* C22: active-piece presence.  A new game starts with an active figure:   *)
(* for every value of the random source the first spawn succeeds, at the   *)
(* anchor (width / 2 + spawn x offset, 0).  While the game is not over     *)
(* there is exactly one active figure at the start of the handling of      *)
(* every event, so that the unwrap of get_figure in the Timer path finds   *)
(* one.                                                                    *)
(***************************************************************************)
ActivePiecePresent ==
    /\ \A u \in 0 .. 27 :
         \E g \in {TetrisGame_new(u)} :
            /\ ~ g.panicked
            /\ Len(g._figure) = 1
            /\ g._figure[1].figure = Figure_rand(u)
            /\ g._figure[1].point
                 = << CELL_COUNT_X \div 2 + offset_from_top_center(Figure_rand(u))[1], 0 >>
    /\ (running /\ ~ panicked) => Len(_figure) = 1
    /\ h.handled => Len(h._figure) = 1

(* A Timer event has grounded the figure it found and the next figure is   *)
(* active.                                                                 *)
ActivePieceWitness ==
    /\ h.handled
    /\ h.event = "Timer"
    /\ h.recreate_figure
    /\ spawned > 0
    /\ running
    /\ ~ panicked
    /\ Len(_figure) = 1


(***************************************************************************)
(* C23: remove_filled_lines completes without a fault on every board       *)
(* reached through play, also when row 0 is full: whenever an event has    *)
(* grounded the figure, remove_filled_lines applied to the merged cells    *)
(* does not abort.                                                         *)
(***************************************************************************)
ClearNeverFaults ==
    (h.handled /\ h.recreate_figure)
        => ~ remove_filled_lines([TetrisCellScreen_new EXCEPT !.cells = h.merged]).panicked


(***************************************************************************)
(* C24: after the handling of an event has completed without game over,    *)
(* the board has no full row: every row has an empty cell.                 *)
(***************************************************************************)
NoFullRowLeft ==
    (h.handled /\ h.ret /\ ~ panicked) => FullRows(cells) = {}


(***************************************************************************)
(* C25: lock liveness.  If Timer events keep arriving and the game is not  *)
(* over, the active figure eventually grounds and is locked, whatever      *)
(* MoveLeft, MoveRight and RotateClockwise events come between the ticks.  *)
(***************************************************************************)
LockLiveness ==
    (Falling /\ running /\ ~ panicked) ~> (h.handled /\ h.recreate_figure)


(***************************************************************************)
(* C26: pause stops gravity.  From the P key-down that removes the timer   *)
(* to the next P key-down no Timer event is applied to the active figure,  *)
(* also when timer_callback has pushed an event before the timer was       *)
(* removed: a step that takes an event of the timer from the queue while   *)
(* there is no timer leaves the figure and the cells as they are.          *)
(***************************************************************************)
PauseStopsGravity ==
    [][(~ timer /\ pending' < pending) => (_figure' = _figure /\ cells' = cells)]_vars

====
